---- MODULE Spec2Model ----
(***************************************************************************)
(* RAiD search page (src/src/index.ts): query compilation, fan-out search  *)
(* over the registered endpoints, result rendering with highlighting, and  *)
(* the paced batch download of the artifact files.                         *)
(*                                                                         *)
(* Text is a sequence of one-character strings.  Fixed pieces of a         *)
(* template literal are single tokens (longer strings), so that a compiled *)
(* query is a sequence of tokens.  A URL that is split on "/" and whose    *)
(* segments are split on "." is a sequence of segments, each a sequence of *)
(* dot-separated parts.                                                    *)
(***************************************************************************)
EXTENDS Integers, Sequences, FiniteSets, TLC

VARIABLES
  nSubmitted,       \* number of performSearch invocations so far
  search,           \* search[s]: the s-th performSearch invocation
  container,        \* content of #results-container
  alerts,           \* number of alert() dialogs shown
  filesToDownload,  \* the module-level Set<string>, in insertion order
  nTriggered,       \* number of downloadFiles invocations so far
  batch,            \* batch[b]: the b-th downloadFiles invocation
  timers,           \* pending setTimeout callbacks
  hl,               \* last highlightText call: arguments and result
  view              \* last createResultElement call: arguments and result

vars == <<nSubmitted, search, container, alerts, filesToDownload,
          nTriggered, batch, timers, hl, view>>

searchVars == <<nSubmitted, search, container, alerts, filesToDownload>>
batchVars == <<nTriggered, batch, timers>>

(***************************************************************************)
(* Bounds of the model.                                                    *)
(***************************************************************************)
\* Length of the endpoint list.  The source registers one endpoint
\* (index.ts:211); the list is a parameter of the fan-out, modelled here
\* with more than one entry so that the join over several requests is
\* exercised.
NumApis == 2
\* performSearch invocations in one session
MaxSearches == 2
\* downloadFiles invocations in one session
MaxBatches == 2
\* records in one endpoint's data array
MaxData == 2
\* characters of a highlighted text
MaxText == 4
\* characters of a highlight query
MaxQuery == 2
\* name identifiers of one contributor
MaxIds == 2

(***************************************************************************)
(* Program constants.                                                      *)
(***************************************************************************)
CleanupDelay == 100
PacingDelay == 1000

(***************************************************************************)
(* Strings                                                                 *)
(***************************************************************************)
SeqsUpTo(S, n) == UNION {[1..k -> S] : k \in 0..n}

Range(f) == {f[i] : i \in DOMAIN f}

Min(a, b) == IF a < b THEN a ELSE b
Max(a, b) == IF a > b THEN a ELSE b

\* Array.prototype.join: the parts with sep between every two of them
RECURSIVE Join(_, _)
Join(parts, sep) ==
  IF parts = <<>> THEN <<>>
  ELSE IF Len(parts) = 1 THEN Head(parts)
  ELSE Head(parts) \o sep \o Join(Tail(parts), sep)

IsWhitespace(ch) == ch \in {" ", "\t"}

\* String.prototype.trim
RECURSIVE TrimStart(_)
TrimStart(s) ==
  IF s # <<>> /\ IsWhitespace(Head(s)) THEN TrimStart(Tail(s)) ELSE s

RECURSIVE TrimEnd(_)
TrimEnd(s) ==
  IF s # <<>> /\ IsWhitespace(s[Len(s)])
  THEN TrimEnd(SubSeq(s, 1, Len(s) - 1)) ELSE s

trim(s) == TrimEnd(TrimStart(s))

\* JavaScript truthiness of a string
Truthy(s) == s # <<>>

\* encodeURIComponent: leaves A-Z a-z 0-9 - _ . ! ~ * ' ( ) alone and
\* percent-encodes every other character as its UTF-8 bytes
Unreserved == {"a", "b", "A", "B", "0", "-", "_", ".", "!", "~", "*", "'", "(", ")"}

EncodeChar(ch) ==
  IF ch \in Unreserved THEN <<ch>>
  ELSE CASE ch = " " -> <<"%", "2", "0">>
         [] ch = "\t" -> <<"%", "0", "9">>
         [] ch = "\"" -> <<"%", "2", "2">>
         [] ch = "/" -> <<"%", "2", "F">>
         [] ch = ":" -> <<"%", "3", "A">>

RECURSIVE encodeURIComponent(_)
encodeURIComponent(s) ==
  IF s = <<>> THEN <<>>
  ELSE EncodeChar(Head(s)) \o encodeURIComponent(Tail(s))

(***************************************************************************)
(* Query compilation (searchSingleApi, up to the request)                  *)
(***************************************************************************)
Fields == <<"title", "description", "creator", "related", "organisation">>

Operators == {"AND", "OR"}

ClausePrefix(f) ==
  CASE f = "title" -> "titles.title:*"
    [] f = "description" -> "descriptions.description:*"
    [] f = "creator" -> "creators.name:\""
    [] f = "related" -> "relatedIdentifiers.relatedIdentifier:\""
    [] f = "organisation" -> "contributors.nameIdentifiers.nameIdentifier:\""

ClauseSuffix(f) == IF f \in {"title", "description"} THEN "*" ELSE "\""

\* the guard of each queryParts.push
EmitsClause(value) == Truthy(value)

Clause(f, value) ==
  <<ClausePrefix(f)>> \o encodeURIComponent(value) \o <<ClauseSuffix(f)>>

RECURSIVE QueryPartsFrom(_, _)
QueryPartsFrom(criteria, k) ==
  IF k > Len(Fields) THEN <<>>
  ELSE LET f == Fields[k]
       IN  (IF EmitsClause(criteria[f]) THEN <<Clause(f, criteria[f])>> ELSE <<>>)
           \o QueryPartsFrom(criteria, k + 1)

queryParts(criteria) == QueryPartsFrom(criteria, 1)

NamespaceOpen == "(identifiers.identifier:*raid.org.au* AND ("
NamespaceClose == "))"

queryString(criteria, operator) ==
  <<NamespaceOpen>>
  \o Join(queryParts(criteria), <<" ", operator, " ">>)
  \o <<NamespaceClose>>

RequestUrl(apiUrl, criteria, operator) ==
  <<apiUrl, "?query=">> \o queryString(criteria, operator)
  \o <<"&page[size]=10000">>

(***************************************************************************)
(* Records, responses and artifact URLs                                    *)
(***************************************************************************)
\* A DOI split on "/" and "." : "10.1/a" and "10.1/b.c"
DoiA == << <<"10", "1">>, <<"a">> >>
DoiB == << <<"10", "1">>, <<"b", "c">> >>
DoiC == << <<"10", "2">>, <<"c">> >>
DOIs == {DoiA, DoiB}

Item(doi) == [doi |-> doi]

\* `https://static.prod.raid.org.au/raids/${item.attributes.doi}.download/`
ArtifactUrl(doi) ==
  << <<"https:">>, <<"">>, <<"static", "prod", "raid", "org", "au">>, <<"raids">> >>
  \o SubSeq(doi, 1, Len(doi) - 1)
  \o << doi[Len(doi)] \o <<"download">> >>
  \o << <<"">> >>

\* a parsed response body: with a data array, or without one
Body(data) == [hasData |-> TRUE, data |-> data]
NoData == [hasData |-> FALSE, data |-> <<>>]

DataArrays == {[k \in DOMAIN ds |-> Item(ds[k])] : ds \in SeqsUpTo(DOIs, MaxData)}

\* the bodies response.json() can resolve to
Bodies == {NoData} \cup {Body(d) : d \in DataArrays}

\* the bodies drawn in the session specification
SessionBodies ==
  {NoData, Body(<<>>), Body(<<Item(DoiA)>>), Body(<<Item(DoiB), Item(DoiA)>>)}

(***************************************************************************)
(* Search state                                                            *)
(***************************************************************************)
\* const apis: string[] = ["https://api.datacite.org/dois"]
apis == [a \in 1..NumApis |->
           IF a = 1 THEN "https://api.datacite.org/dois" ELSE ToString(a)]

Searches == 1..MaxSearches

NoCriteria == [f \in Range(Fields) |-> <<>>]

\* sent counts the calls of fetch made for the endpoint
NoRequest == [status |-> "none", url |-> <<>>, value |-> NoData, sent |-> 0]

UnusedSearch ==
  [pc |-> "unused", criteria |-> NoCriteria, operator |-> "AND",
   req |-> [a \in 1..NumApis |-> NoRequest], order |-> <<>>,
   returned |-> [status |-> "none", data |-> <<>>]]

InitialView == [kind |-> "initial", items |-> <<>>]
LoadingView == [kind |-> "loading", items |-> <<>>]
NoResultsView == [kind |-> "noresults", items |-> <<>>]
ErrorView == [kind |-> "error", items |-> <<>>]
ResultsView(items) == [kind |-> "results", items |-> items]

\* the check with the trim left out: value !== ""
SomeNonEmpty(criteria) ==
  \E k \in DOMAIN Fields : criteria[Fields[k]] # <<>>

\* Object.values(searchCriteria).some((value) => value.trim() !== "")
SomeTrimmedNonEmpty(criteria) ==
  \E k \in DOMAIN Fields : trim(criteria[Fields[k]]) # <<>>

hasAtLeastOneQuery(criteria) == SomeTrimmedNonEmpty(criteria)

hasAtLeastOneCriterion(criteria) == SomeTrimmedNonEmpty(criteria)

Settled(r) == r.status \in {"fulfilled", "rejected"}

\* searchSingleApi up to its first await: the early return, or the request
searchSingleApi(apiUrl, criteria, operator) ==
  IF Len(queryParts(criteria)) = 0
  THEN [status |-> "fulfilled", url |-> <<>>, value |-> Body(<<>>), sent |-> 0]
  ELSE [status |-> "fetching", url |-> RequestUrl(apiUrl, criteria, operator),
        value |-> NoData, sent |-> 1]

\* the reduce keeping only the data spread last: [...result.value.data]
RECURSIVE combinedDataLastOnly(_, _)
combinedDataLastOnly(results, k) ==
  IF k = 0 THEN [thrown |-> FALSE, data |-> <<>>]
  ELSE LET acc == combinedDataLastOnly(results, k - 1)
           result == results[k]
       IN  IF acc.thrown THEN acc
           ELSE IF result.status = "fulfilled"
                THEN IF result.value.hasData
                     THEN [thrown |-> FALSE, data |-> result.value.data]
                     ELSE [thrown |-> TRUE, data |-> <<>>]
                ELSE acc

\* the reduce spreading in the other order: [...result.value.data, ...acc]
RECURSIVE combinedDataPrepend(_, _)
combinedDataPrepend(results, k) ==
  IF k = 0 THEN [thrown |-> FALSE, data |-> <<>>]
  ELSE LET acc == combinedDataPrepend(results, k - 1)
           result == results[k]
       IN  IF acc.thrown THEN acc
           ELSE IF result.status = "fulfilled"
                THEN IF result.value.hasData
                     THEN [thrown |-> FALSE, data |-> result.value.data \o acc.data]
                     ELSE [thrown |-> TRUE, data |-> <<>>]
                ELSE acc

\* the reduce of a fail-fast join: a rejected result raises
RECURSIVE combinedDataFailFast(_, _)
combinedDataFailFast(results, k) ==
  IF k = 0 THEN [thrown |-> FALSE, data |-> <<>>]
  ELSE LET acc == combinedDataFailFast(results, k - 1)
           result == results[k]
       IN  IF acc.thrown THEN acc
           ELSE IF result.status = "fulfilled"
                THEN IF result.value.hasData
                     THEN [thrown |-> FALSE, data |-> acc.data \o result.value.data]
                     ELSE [thrown |-> TRUE, data |-> <<>>]
                ELSE [thrown |-> TRUE, data |-> <<>>]

\* results.reduce(...): the settled results in the order of the array that
\* Promise.allSettled returns; spreading a missing data array throws
RECURSIVE combinedData(_, _)
combinedData(results, k) ==
  IF k = 0 THEN [thrown |-> FALSE, data |-> <<>>]
  ELSE LET acc == combinedData(results, k - 1)
           result == results[k]
       IN  IF acc.thrown THEN acc
           ELSE IF result.status = "fulfilled"
                THEN IF result.value.hasData
                     THEN [thrown |-> FALSE, data |-> acc.data \o result.value.data]
                     ELSE [thrown |-> TRUE, data |-> <<>>]
                ELSE acc

\* Set.prototype.add on the insertion-ordered set
SetAdd(set, x) == IF x \in Range(set) THEN set ELSE Append(set, x)

RECURSIVE AddArtifacts(_, _)
AddArtifacts(files, data) ==
  IF data = <<>> THEN files
  ELSE AddArtifacts(SetAdd(files, ArtifactUrl(Head(data).doi)), Tail(data))

\* renderResults filling a set that is created anew by each render
renderResultsFreshSet(data, files) ==
  IF Len(data) = 0
  THEN [container |-> NoResultsView, files |-> <<>>]
  ELSE [container |-> ResultsView([k \in DOMAIN data |-> data[k].doi]),
        files |-> AddArtifacts(<<>>, data)]

\* renderResults: the new container content and the new filesToDownload
renderResults(data, files) ==
  IF Len(data) = 0
  THEN [container |-> NoResultsView, files |-> files]
  ELSE [container |-> ResultsView([k \in DOMAIN data |-> data[k].doi]),
        files |-> AddArtifacts(files, data)]

\* the join of Promise.all: taken at the first rejection
AllSettledOrOneRejected(req) ==
  \/ \A a \in DOMAIN req : Settled(req[a])
  \/ \E a \in DOMAIN req : req[a].status = "rejected"

\* Promise.allSettled: the join is taken once every request has settled
AllSettled(req) == \A a \in DOMAIN req : Settled(req[a])

\* The continuation of searchDois and of performSearch after the await, run
\* when the request that settles last has settled: rec is the search with
\* that request's outcome recorded.
Resume(s, rec) ==
  IF ~AllSettled(rec.req)
  THEN /\ search' = [search EXCEPT ![s] = rec]
       /\ UNCHANGED <<container, filesToDownload>>
  ELSE LET combined == combinedData(rec.req, NumApis)
       IN  IF combined.thrown
           THEN /\ search' = [search EXCEPT ![s] =
                       [rec EXCEPT !.pc = "failed",
                                   !.returned = [status |-> "raised", data |-> <<>>]]]
                /\ container' = ErrorView
                /\ UNCHANGED filesToDownload
           ELSE LET out == renderResults(combined.data, filesToDownload)
                IN  /\ search' = [search EXCEPT ![s] =
                          [rec EXCEPT !.pc = "rendered",
                                      !.returned = [status |-> "returned",
                                                    data |-> combined.data]]]
                    /\ container' = out.container
                    /\ filesToDownload' = out.files

\* performSearch, from the submit event to its first await
Submit(criteria, operator) ==
  /\ nSubmitted < MaxSearches
  /\ nSubmitted' = nSubmitted + 1
  /\ LET s == nSubmitted + 1
         rec == [UnusedSearch EXCEPT !.criteria = criteria, !.operator = operator]
     IN  IF ~hasAtLeastOneCriterion(criteria)
         THEN /\ alerts' = alerts + 1
              /\ search' = [search EXCEPT ![s] = [rec EXCEPT !.pc = "alerted"]]
              /\ UNCHANGED <<container, filesToDownload>>
         ELSE /\ UNCHANGED alerts
              /\ IF ~hasAtLeastOneQuery(criteria)
                 THEN /\ search' = [search EXCEPT ![s] =
                             [rec EXCEPT !.pc = "failed",
                                         !.returned = [status |-> "raised", data |-> <<>>]]]
                      /\ container' = ErrorView
                      /\ UNCHANGED filesToDownload
                 ELSE LET issued == [rec EXCEPT
                            !.pc = "waiting",
                            !.req = [a \in 1..NumApis |->
                                       searchSingleApi(apis[a], criteria, operator)]]
                      IN  IF AllSettled(issued.req)
                          THEN Resume(s, issued)
                          ELSE /\ search' = [search EXCEPT ![s] = issued]
                               /\ container' = LoadingView
                               /\ UNCHANGED filesToDownload
  /\ UNCHANGED <<batchVars, hl, view>>

\* the promise of fetch(url) settles, a failed fetch being issued once more
FetchSettleRetries(s, a, ok) ==
  /\ search[s].pc = "waiting"
  /\ search[s].req[a].status = "fetching"
  /\ IF ok
     THEN /\ search' = [search EXCEPT ![s].req[a].status = "parsing"]
          /\ UNCHANGED <<container, filesToDownload>>
     ELSE IF search[s].req[a].sent < 2
          THEN /\ search' = [search EXCEPT ![s].req[a].sent = @ + 1]
               /\ UNCHANGED <<container, filesToDownload>>
          ELSE Resume(s, [search[s] EXCEPT !.req[a].status = "rejected",
                                           !.order = Append(@, a)])
  /\ UNCHANGED <<nSubmitted, alerts, batchVars, hl, view>>

\* the promise of fetch(url) settles
FetchSettle(s, a, ok) ==
  /\ search[s].pc = "waiting"
  /\ search[s].req[a].status = "fetching"
  /\ IF ok
     THEN /\ search' = [search EXCEPT ![s].req[a].status = "parsing"]
          /\ UNCHANGED <<container, filesToDownload>>
     ELSE Resume(s, [search[s] EXCEPT !.req[a].status = "rejected",
                                      !.order = Append(@, a)])
  /\ UNCHANGED <<nSubmitted, alerts, batchVars, hl, view>>

\* the promise of response.json() settles: rejected (ok = FALSE, the body is
\* not JSON), or resolved with the parsed body
JsonSettle(s, a, ok, body) ==
  /\ search[s].pc = "waiting"
  /\ search[s].req[a].status = "parsing"
  /\ IF ~ok
     THEN Resume(s, [search[s] EXCEPT !.req[a].status = "rejected",
                                      !.order = Append(@, a)])
     ELSE Resume(s, [search[s] EXCEPT !.req[a].status = "fulfilled",
                                      !.req[a].value = body,
                                      !.order = Append(@, a)])
  /\ UNCHANGED <<nSubmitted, alerts, batchVars, hl, view>>

(***************************************************************************)
(* Batch download (downloadFiles)                                          *)
(***************************************************************************)
Batches == 1..MaxBatches

EmptySegment == <<"">>
EmptyUrl == <<EmptySegment>>

UnusedBatch ==
  [pc |-> "unused", urls |-> <<>>, i |-> 0, log |-> <<>>, saved |-> <<>>,
   objs |-> <<>>, since |-> PacingDelay, gaps |-> <<>>]

\* entries of a batch's log: the fetch of urls[i] is issued; the download of
\* urls[i] has ended (its body was read, or the fetch or the read failed)
FetchIssued(i) == [ev |-> "fetch", i |-> i]
DownloadEnded(i) == [ev |-> "end", i |-> i]

\* url.split("/").slice(-3)
lastThreeParts(url) == SubSeq(url, Max(1, Len(url) - 2), Len(url))

\* the destructuring of lines 90-91 throws when the second of the last
\* three parts is missing
ParseThrows(url) == Len(lastThreeParts(url)) < 2

\* link.download = url.split("/").pop() || `raid-${prefix}-${suffix}.json`
DownloadName(url) ==
  LET prefix == lastThreeParts(url)[1]
      suffixWithDot == lastThreeParts(url)[2]
      suffix == suffixWithDot[1]
      last == url[Len(url)]
  IN  IF last # EmptySegment THEN <<last>>
      ELSE << <<"raid-">>, prefix, <<"-">>, <<suffix>>, <<".json">> >>

\* the loop with the condition i < urls.length - 1
RECURSIVE RunLoopStopsEarly(_, _)
RunLoopStopsEarly(bt, j) ==
  IF j >= Len(bt.urls) THEN [bt EXCEPT !.pc = "done", !.i = j]
  ELSE IF bt.urls[j] = <<<<"">>>> \/ Len(bt.urls[j]) < 2 THEN RunLoopStopsEarly(bt, j + 1)
  ELSE [bt EXCEPT !.pc = "fetching", !.i = j,
                  !.log = Append(@, [ev |-> "fetch", i |-> j]),
                  !.gaps = Append(@, bt.since)]

\* the loop iterating the live set instead of the array it was handed
RECURSIVE RunLoopLiveSet(_, _)
RunLoopLiveSet(bt, j) ==
  IF j > Len(filesToDownload) THEN [bt EXCEPT !.pc = "done", !.i = j]
  ELSE IF filesToDownload[j] = <<<<"">>>> \/ Len(filesToDownload[j]) < 2
       THEN RunLoopLiveSet(bt, j + 1)
  ELSE [bt EXCEPT !.pc = "fetching", !.i = j,
                  !.log = Append(@, [ev |-> "fetch", i |-> j]),
                  !.gaps = Append(@, bt.since)]

\* The for loop from index j up to its next await: an empty URL is skipped,
\* a URL whose parsing throws is caught and skipped, the first other URL is
\* fetched; past the last URL the function returns.
RECURSIVE RunLoop(_, _)
RunLoop(bt, j) ==
  IF j > Len(bt.urls) THEN [bt EXCEPT !.pc = "done", !.i = j]
  ELSE IF bt.urls[j] = EmptyUrl \/ ParseThrows(bt.urls[j]) THEN RunLoop(bt, j + 1)
  ELSE [bt EXCEPT !.pc = "fetching", !.i = j,
                  !.log = Append(@, FetchIssued(j)),
                  !.gaps = Append(@, bt.since)]

\* the click listener of the download button: downloadFiles(Array.from(filesToDownload))
DownloadClick ==
  /\ container.kind = "results"
  /\ nTriggered < MaxBatches
  /\ nTriggered' = nTriggered + 1
  /\ batch' = [batch EXCEPT ![nTriggered + 1] =
                 RunLoop([UnusedBatch EXCEPT !.urls = filesToDownload], 1)]
  /\ UNCHANGED <<searchVars, timers, hl, view>>

\* the handler with the try around the whole loop: a rejection ends the batch
DownloadFetchSettleAborts(b, ok) ==
  /\ batch[b].pc = "fetching"
  /\ batch' = [batch EXCEPT ![b] =
                 IF ok THEN [@ EXCEPT !.pc = "reading"]
                 ELSE [@ EXCEPT !.pc = "done", !.since = 0,
                                !.log = Append(@, [ev |-> "end", i |-> batch[b].i])]]
  /\ UNCHANGED <<searchVars, nTriggered, timers, hl, view>>

\* the promise of fetch(url) settles; a rejection is caught and the loop goes on
DownloadFetchSettle(b, ok) ==
  /\ batch[b].pc = "fetching"
  /\ batch' = [batch EXCEPT ![b] =
                 IF ok THEN [@ EXCEPT !.pc = "reading"]
                 ELSE RunLoop([@ EXCEPT !.since = 0,
                                        !.log = Append(@, DownloadEnded(batch[b].i))],
                              @.i + 1)]
  /\ UNCHANGED <<searchVars, nTriggered, timers, hl, view>>

\* the promise of response.blob() settles: on success the object URL is
\* created, the link is clicked, and both timers are set
BlobSettle(b, ok) ==
  /\ batch[b].pc = "reading"
  /\ IF ok
     THEN /\ batch' = [batch EXCEPT ![b] =
                 [@ EXCEPT !.pc = "pacing",
                           !.log = Append(@, DownloadEnded(batch[b].i)),
                           !.saved = Append(@, DownloadName(batch[b].urls[batch[b].i])),
                           !.objs = Append(@, [i |-> batch[b].i, revoked |-> 0]),
                           !.since = 0]]
          /\ timers' = timers \cup
               {[kind |-> "cleanup", b |-> b, obj |-> Len(batch[b].objs) + 1,
                 left |-> CleanupDelay],
                [kind |-> "pacing", b |-> b, obj |-> 0, left |-> PacingDelay]}
     ELSE /\ batch' = [batch EXCEPT ![b] =
                 RunLoop([@ EXCEPT !.since = 0,
                                   !.log = Append(@, DownloadEnded(batch[b].i))],
                         @.i + 1)]
          /\ UNCHANGED timers
  /\ UNCHANGED <<searchVars, nTriggered, hl, view>>

\* the 100 ms callback without its second statement: the link is removed
CleanupFireRemovesLinkOnly(t) ==
  /\ t \in timers
  /\ t.kind = "cleanup"
  /\ t.left = 0
  /\ timers' = timers \ {t}
  /\ UNCHANGED <<searchVars, nTriggered, batch, hl, view>>

\* the 100 ms callback: the link is removed and the object URL revoked
CleanupFire(t) ==
  /\ t \in timers
  /\ t.kind = "cleanup"
  /\ t.left = 0
  /\ timers' = timers \ {t}
  /\ batch' = [batch EXCEPT ![t.b].objs[t.obj].revoked = @ + 1]
  /\ UNCHANGED <<searchVars, nTriggered, hl, view>>

\* the 1000 ms callback resolves the awaited promise: the loop goes on
PacingFire(t) ==
  /\ t \in timers
  /\ t.kind = "pacing"
  /\ t.left = 0
  /\ timers' = timers \ {t}
  /\ batch' = [batch EXCEPT ![t.b] = RunLoop(@, @.i + 1)]
  /\ UNCHANGED <<searchVars, nTriggered, hl, view>>

\* Time passes, in steps of the shorter delay.  A timer that is due runs
\* before time passes further.
Tick ==
  /\ timers # {}
  /\ \A t \in timers : t.left > 0
  /\ timers' = {[t EXCEPT !.left = Max(0, @ - CleanupDelay)] : t \in timers}
  /\ batch' = [b \in Batches |->
                 [batch[b] EXCEPT !.since = Min(PacingDelay, @ + CleanupDelay)]]
  /\ UNCHANGED <<searchVars, nTriggered, hl, view>>

(***************************************************************************)
(* Highlighting (highlightText)                                            *)
(***************************************************************************)
MarkOpen == "<mark>"
MarkClose == "</mark>"

\* the characters of the class [.*+?^${}()|[\]\\]
RegexSpecial == {".", "*", "+", "?", "^", "$", "{", "}", "(", ")", "|", "[", "]", "\\"}

\* the query used as the pattern source as it is, with no escaping
escapeNothing(q) == q

\* query.replace(/[.*+?^${}()|[\]\\]/g, "\\$&")
RECURSIVE escapeQuery(_)
escapeQuery(q) ==
  IF q = <<>> THEN <<>>
  ELSE (IF Head(q) \in RegexSpecial THEN <<"\\", Head(q)>> ELSE <<Head(q)>>)
       \o escapeQuery(Tail(q))

\* The atoms of the pattern source that new RegExp compiles: a backslash
\* makes the next character a literal, a bare "." matches any character,
\* any other character is a literal.  (A bare quantifier or bracket does not
\* reach the compiler: escapeQuery escapes every one of them.)
RECURSIVE Atoms(_)
Atoms(src) ==
  IF src = <<>> THEN <<>>
  ELSE IF Head(src) = "\\" /\ Len(src) >= 2
       THEN <<[any |-> FALSE, ch |-> src[2]]>> \o Atoms(SubSeq(src, 3, Len(src)))
       ELSE <<[any |-> Head(src) = ".", ch |-> Head(src)]>> \o Atoms(Tail(src))

\* the i flag: characters are compared after Canonicalize (toUpperCase)
Canonicalize(ch) ==
  CASE ch = "a" -> "A"
    [] ch = "b" -> "B"
    [] OTHER -> ch

AtomMatches(atom, ch) ==
  atom.any \/ Canonicalize(atom.ch) = Canonicalize(ch)

\* does the pattern match text at position p
MatchesAt(atoms, text, p) ==
  /\ p + Len(atoms) - 1 <= Len(text)
  /\ \A k \in 1..Len(atoms) : AtomMatches(atoms[k], text[p + k - 1])

\* text.replace(regex, "<mark>$1</mark>") with the g flag, from position p
RECURSIVE ReplaceFrom(_, _, _)
ReplaceFrom(atoms, text, p) ==
  IF p > Len(text) THEN <<>>
  ELSE IF MatchesAt(atoms, text, p)
       THEN <<MarkOpen>> \o SubSeq(text, p, p + Len(atoms) - 1) \o <<MarkClose>>
            \o ReplaceFrom(atoms, text, p + Len(atoms))
       ELSE <<text[p]>> \o ReplaceFrom(atoms, text, p + 1)

highlightText(text, query) ==
  IF ~Truthy(query) THEN text
  ELSE ReplaceFrom(Atoms(escapeQuery(query)), text, 1)

NoHighlight == [text |-> <<>>, query |-> <<>>, out |-> <<>>]

\* the characters texts and queries are drawn from
TextChars == {"a", "A", ".", " "}

\* a call of highlightText
Highlight(text, query) ==
  /\ hl' = [text |-> text, query |-> query, out |-> highlightText(text, query)]
  /\ UNCHANGED <<searchVars, batchVars, view>>

(***************************************************************************)
(* createResultElement.  A record's attributes are sequences; a field that *)
(* the response leaves out is the empty sequence, which every guard of the *)
(* function treats like the missing field.  Titles, names and descriptions *)
(* are sequences of characters; an identifier is a sequence of the tokens  *)
(* "https:", "/", a host name, and characters.                             *)
(***************************************************************************)
NoTitle == <<"N", "o", " ", "T", "i", "t", "l", "e">>
NoDescription ==
  <<"N", "o", " ", "D", "e", "s", "c", "r", "i", "p", "t", "i", "o", "n">>
NoDoi == <<"No DOI">>
NoCreators == <<"No creators">>
NoRelatedIdentifiers == <<"No related identifiers">>
NoOrganisations == <<"No organisations">>

\* the separator the loops append after every link, three characters long
Amp == " & "

\* `<a href="${href}" target="_blank">${content}</a> & `
LinkAmp(href, content) ==
  <<"<a href=\"">> \o href \o <<"\" target=\"_blank\">">> \o content
    \o <<"</a>", Amp>>

\* links.slice(0, -3) on a string that ends with the separator
SliceOffAmp(links) == SubSeq(links, 1, Len(links) - 1)

\* the highlighting of one displayed value: criterion ? highlightText(...) : value
Shown(value, criterion) ==
  IF Truthy(criterion) THEN highlightText(value, criterion) ELSE value

\* nameId.nameIdentifier.split("/").pop() || ""
rorId(nameIdentifier) ==
  LET slashes == {k \in DOMAIN nameIdentifier : nameIdentifier[k] = "/"}
  IN  IF slashes = {} THEN nameIdentifier
      ELSE LET last == CHOOSE k \in slashes : \A j \in slashes : j <= k
           IN  SubSeq(nameIdentifier, last + 1, Len(nameIdentifier))

\* the guard that renders every name identifier that is not empty
IsNonEmptyIdentifier(nameIdentifier) == Truthy(nameIdentifier)

\* nameId.nameIdentifier && nameId.nameIdentifier.includes("ror.org")
IsRorIdentifier(nameIdentifier) ==
  Truthy(nameIdentifier) /\ \E k \in DOMAIN nameIdentifier : nameIdentifier[k] = "ror.org"

\* the inner loop over the name identifiers of one contributor
RECURSIVE NameIdentifierLinks(_, _)
NameIdentifierLinks(nameIdentifiers, criterion) ==
  IF nameIdentifiers = <<>> THEN <<>>
  ELSE (IF IsRorIdentifier(Head(nameIdentifiers))
        THEN LinkAmp(<<"https://ror.org/">> \o rorId(Head(nameIdentifiers)),
                     Shown(Head(nameIdentifiers), criterion))
        ELSE <<>>)
       \o NameIdentifierLinks(Tail(nameIdentifiers), criterion)

\* the outer loop over the contributors
RECURSIVE ContributorLinks(_, _)
ContributorLinks(contributors, criterion) ==
  IF contributors = <<>> THEN <<>>
  ELSE NameIdentifierLinks(Head(contributors).nameIdentifiers, criterion)
       \o ContributorLinks(Tail(contributors), criterion)

\* the loops over creators and over related identifiers: the link target is
\* the value itself
RECURSIVE ValueLinks(_, _)
ValueLinks(values, criterion) ==
  IF values = <<>> THEN <<>>
  ELSE LinkAmp(Head(values), Shown(Head(values), criterion))
       \o ValueLinks(Tail(values), criterion)

\* the lines of resultDiv.innerHTML
createResultElement(attributes, searchCriteria) ==
  LET mapped == [k \in DOMAIN attributes.titles |->
                   Shown(attributes.titles[k], searchCriteria.title)]
      joined == Join(SelectSeq(mapped, Truthy), <<" | ">>)
      titles == IF Truthy(joined) THEN joined ELSE NoTitle
      doi == attributes.doi
      doiLink == IF Truthy(doi)
                 THEN <<"<a href=\"", "https://raid.org/">> \o doi
                        \o <<"\" target=\"_blank\">">>
                        \o Shown(doi, searchCriteria.related) \o <<"</a>">>
                 ELSE NoDoi
      creatorsLinks ==
        IF Len(attributes.creators) > 0
        THEN SliceOffAmp(ValueLinks(attributes.creators, searchCriteria.creator))
        ELSE <<>>
      relatedIdentifiersLinks ==
        IF Len(attributes.relatedIdentifiers) > 0
        THEN SliceOffAmp(ValueLinks(attributes.relatedIdentifiers,
                                    searchCriteria.related))
        ELSE <<>>
      collected == ContributorLinks(attributes.contributors,
                                    searchCriteria.organisation)
      organisationsLinks ==
        IF Len(attributes.contributors) > 0 /\ Truthy(collected)
        THEN SliceOffAmp(collected)
        ELSE <<>>
      first == IF Len(attributes.descriptions) > 0
                  /\ Truthy(attributes.descriptions[1])
               THEN attributes.descriptions[1]
               ELSE NoDescription
      description == Shown(first, searchCriteria.description)
  IN  [titles |-> titles,
       doiLink |-> doiLink,
       creators |-> IF Truthy(creatorsLinks) THEN creatorsLinks ELSE NoCreators,
       relatedIdentifiers |-> IF Truthy(relatedIdentifiersLinks)
                              THEN relatedIdentifiersLinks
                              ELSE NoRelatedIdentifiers,
       organisations |-> IF Truthy(organisationsLinks) THEN organisationsLinks
                         ELSE NoOrganisations,
       description |-> description]

\* a record with no attribute
NoAttributes ==
  [doi |-> <<>>, titles |-> <<>>, creators |-> <<>>, relatedIdentifiers |-> <<>>,
   contributors |-> <<>>, descriptions |-> <<>>]

NoLines ==
  [titles |-> <<>>, doiLink |-> <<>>, creators |-> <<>>, relatedIdentifiers |-> <<>>,
   organisations |-> <<>>, description |-> <<>>]

NoView == [called |-> FALSE, attributes |-> NoAttributes, criteria |-> NoCriteria,
           out |-> NoLines]

\* a call of createResultElement
Project(attributes, searchCriteria) ==
  /\ view' = [called |-> TRUE, attributes |-> attributes, criteria |-> searchCriteria,
              out |-> createResultElement(attributes, searchCriteria)]
  /\ UNCHANGED <<searchVars, batchVars, hl>>

(***************************************************************************)
(* The session                                                             *)
(***************************************************************************)
Init ==
  /\ nSubmitted = 0
  /\ search = [s \in Searches |-> UnusedSearch]
  /\ container = InitialView
  /\ alerts = 0
  /\ filesToDownload = <<>>
  /\ nTriggered = 0
  /\ batch = [b \in Batches |-> UnusedBatch]
  /\ timers = {}
  /\ hl = NoHighlight
  /\ view = NoView

\* values a form field is given: empty, whitespace only, a word
FieldValues == {<<>>, <<" ">>, <<"a">>}

AllCriteria == [Range(Fields) -> FieldValues]

\* the form contents drawn in the session specification
SessionCriteria ==
  {NoCriteria,
   [NoCriteria EXCEPT !.title = <<" ">>],
   [f \in Range(Fields) |-> <<" ">>],
   [NoCriteria EXCEPT !.title = <<"a">>],
   [NoCriteria EXCEPT !.creator = <<"a">>, !.description = <<" ">>]}

\* the first search of the session
SubmitFirst(criteria, operator) == nSubmitted = 0 /\ Submit(criteria, operator)

\* the first click on the download button
DownloadClickFirst == nTriggered = 0 /\ DownloadClick

\* One search: the fan-out of one searchDois call, over every body
FanOutNext ==
  \/ \E c \in SessionCriteria, op \in Operators : SubmitFirst(c, op)
  \/ \E s \in Searches, a \in 1..NumApis, ok \in BOOLEAN : FetchSettle(s, a, ok)
  \/ \E s \in Searches, a \in 1..NumApis, ok \in BOOLEAN, body \in Bodies :
       JsonSettle(s, a, ok, body)

FanOutSpec == Init /\ [][FanOutNext]_vars

\* One search with every form content: the requests it issues
CompileNext ==
  \E c \in AllCriteria, op \in Operators : SubmitFirst(c, op)

CompileSpec == Init /\ [][CompileNext]_vars

\* highlightText applied once, to every text and query within the bounds
HighlightNext ==
  /\ hl = NoHighlight
  /\ \E text \in SeqsUpTo(TextChars, MaxText), query \in SeqsUpTo(TextChars, MaxQuery) :
       Highlight(text, query)

HighlightSpec == Init /\ [][HighlightNext]_vars

\* the bodies drawn in the download specification
DownloadBodies ==
  {Body(<<Item(DoiA)>>), Body(<<Item(DoiB), Item(DoiA)>>), Body(<<Item(DoiC)>>)}

\* Searches that render, and the batches the download button starts
DownloadNext ==
  \/ SubmitFirst([NoCriteria EXCEPT !.title = <<"a">>], "AND")
  \/ \E s \in Searches, a \in 1..NumApis, ok \in BOOLEAN : FetchSettle(s, a, ok)
  \/ \E s \in Searches, a \in 1..NumApis, body \in DownloadBodies :
       JsonSettle(s, a, TRUE, body)
  \/ DownloadClick
  \/ \E b \in Batches, ok \in BOOLEAN : DownloadFetchSettle(b, ok)
  \/ \E b \in Batches, ok \in BOOLEAN : BlobSettle(b, ok)
  \/ \E t \in timers : CleanupFire(t)
  \/ \E t \in timers : PacingFire(t)
  \/ Tick

DownloadSpec == Init /\ [][DownloadNext]_vars

\* One batch: a search that renders, and the batch one click starts
BatchNext ==
  \/ SubmitFirst([NoCriteria EXCEPT !.title = <<"a">>], "AND")
  \/ \E s \in Searches, a \in 1..NumApis, ok \in BOOLEAN : FetchSettle(s, a, ok)
  \/ \E s \in Searches, a \in 1..NumApis, body \in DownloadBodies :
       JsonSettle(s, a, TRUE, body)
  \/ DownloadClickFirst
  \/ \E b \in Batches, ok \in BOOLEAN : DownloadFetchSettle(b, ok)
  \/ \E b \in Batches, ok \in BOOLEAN : BlobSettle(b, ok)
  \/ \E t \in timers : CleanupFire(t)
  \/ \E t \in timers : PacingFire(t)
  \/ Tick

BatchSpec == Init /\ [][BatchNext]_vars

\* A pending fetch or body read settles, a due timer runs, and time passes
\* while a timer is pending.
BatchFairness ==
  /\ \A b \in Batches : WF_vars(\E ok \in BOOLEAN : DownloadFetchSettle(b, ok))
  /\ \A b \in Batches : WF_vars(\E ok \in BOOLEAN : BlobSettle(b, ok))
  /\ WF_vars(\E t \in timers : CleanupFire(t))
  /\ WF_vars(\E t \in timers : PacingFire(t))
  /\ WF_vars(Tick)

FairBatchSpec == BatchSpec /\ BatchFairness

\* the name identifiers records are drawn from: none, an ORCID iD, a ROR
\* id, a ROR id with nothing after its last slash, "ror.org" with no slash
Orcid == <<"https:", "/", "/", "orcid.org", "/", "a">>
RorA == <<"https:", "/", "/", "ror.org", "/", "0", "a">>
RorSlash == <<"https:", "/", "/", "ror.org", "/">>
RorBare == <<"ror.org">>
NameIds == {<<>>, Orcid, RorA, RorSlash, RorBare}

Contributors ==
  {[nameIdentifiers |-> ids] : ids \in SeqsUpTo(NameIds, MaxIds)}

\* the other attributes of a record: missing, empty, present
RecordTitles == {<<>>, << <<>> >>, << <<"a", " ", "A">>, <<>>, <<"o">> >>}
RecordDescriptions == {<<>>, << <<>> >>, << <<"a", " ", "o">>, <<"a">> >>}
RecordCreators == {<<>>, << <<"a", " ", "A">>, <<"o">> >>}
RecordRelated == {<<>>, << Orcid >>}
RecordDois == {<<>>, <<"1", "0", ".", "a">>}

\* the records createResultElement is applied to: every list of up to two
\* contributors on an otherwise empty record, and every combination of the
\* other attributes with a short list of contributors
ProjectedRecords ==
  {[NoAttributes EXCEPT !.contributors = cs] : cs \in SeqsUpTo(Contributors, 2)}
  \cup
  {[doi |-> d, titles |-> t, creators |-> c, relatedIdentifiers |-> r,
    contributors |-> cs, descriptions |-> ds] :
     d \in RecordDois, t \in RecordTitles, c \in RecordCreators, r \in RecordRelated,
     cs \in {<<>>, <<[nameIdentifiers |-> <<RorA>>]>>}, ds \in RecordDescriptions}

\* the criteria of the search whose results are rendered
ProjectedCriteria ==
  {NoCriteria,
   [f \in Range(Fields) |-> <<"a">>],
   [f \in Range(Fields) |-> <<" ">>],
   [f \in Range(Fields) |-> <<"o">>],
   [NoCriteria EXCEPT !.organisation = <<"ror.org">>, !.title = <<"N", "o">>]}

\* createResultElement applied once
ProjectionNext ==
  /\ ~view.called
  /\ \E attributes \in ProjectedRecords, criteria \in ProjectedCriteria :
       Project(attributes, criteria)

ProjectionSpec == Init /\ [][ProjectionNext]_vars

\* Searches submitted one after another or while earlier ones are waiting
OverlapNext ==
  \/ \E c \in {NoCriteria, [NoCriteria EXCEPT !.title = <<"a">>]} : Submit(c, "AND")
  \/ \E s \in Searches, a \in 1..NumApis, ok \in BOOLEAN : FetchSettle(s, a, ok)
  \/ \E s \in Searches, a \in 1..NumApis, body \in SessionBodies :
       JsonSettle(s, a, TRUE, body)

OverlapSpec == Init /\ [][OverlapNext]_vars

\* One batch, and searches that render before, while and after it runs
SnapshotNext ==
  \/ Submit([NoCriteria EXCEPT !.title = <<"a">>], "AND")
  \/ \E s \in Searches, a \in 1..NumApis, ok \in BOOLEAN : FetchSettle(s, a, ok)
  \/ \E s \in Searches, a \in 1..NumApis, body \in DownloadBodies :
       JsonSettle(s, a, TRUE, body)
  \/ DownloadClickFirst
  \/ \E b \in Batches, ok \in BOOLEAN : DownloadFetchSettle(b, ok)
  \/ \E b \in Batches, ok \in BOOLEAN : BlobSettle(b, ok)
  \/ \E t \in timers : CleanupFire(t)
  \/ \E t \in timers : PacingFire(t)
  \/ Tick

SnapshotSpec == Init /\ [][SnapshotNext]_vars

(***************************************************************************)
(* Properties                                                              *)
(***************************************************************************)
IsBlank(value) == \A k \in DOMAIN value : IsWhitespace(value[k])

AllBlank(criteria) == \A f \in Range(Fields) : IsBlank(criteria[f])

Submitted(s) == search[s].pc # "unused"

\* searchDois of search s has run to its end
Completed(s) == search[s].pc \in {"rendered", "failed"}

RequestsIssued(s) == {a \in 1..NumApis : search[s].req[a].url # <<>>}

FulfilledApis(s) == {a \in 1..NumApis : search[s].req[a].status = "fulfilled"}
RejectedApis(s) == {a \in 1..NumApis : search[s].req[a].status = "rejected"}

\* every response that arrived carries a data array
WellFormed(s) == \A a \in FulfilledApis(s) : search[s].req[a].value.hasData

IsPrefix(p, q) == Len(p) <= Len(q) /\ SubSeq(q, 1, Len(p)) = p

\* data is the data arrays of the endpoints in S, each contiguous and in its
\* own order, in some order of the endpoints
RECURSIVE IsBlocksOf(_, _, _)
IsBlocksOf(data, s, S) ==
  IF S = {} THEN data = <<>>
  ELSE \E a \in S :
         LET d == search[s].req[a].value.data
         IN  /\ IsPrefix(d, data)
             /\ IsBlocksOf(SubSeq(data, Len(d) + 1, Len(data)), s, S \ {a})

\* the data arrays of the endpoints of the sequence as, one after the other
RECURSIVE BlocksInOrder(_, _)
BlocksInOrder(s, as) ==
  IF as = <<>> THEN <<>>
  ELSE search[s].req[Head(as)].value.data \o BlocksInOrder(s, Tail(as))

IsFulfilledIn(s, a) == a \in FulfilledApis(s)

\* C1: a search whose five fields are all blank (empty or whitespace only)
\* signals a validation error (the alert of performSearch, or the error
\* searchDois throws) and issues no request to any endpoint.
C1_BlankCriteriaIssueNoRequest ==
  \A s \in Searches :
    (Submitted(s) /\ AllBlank(search[s].criteria)) =>
      /\ \/ search[s].pc = "alerted" /\ alerts >= 1
         \/ search[s].pc = "failed" /\ search[s].returned.status = "raised"
      /\ RequestsIssued(s) = {}
      /\ \A a \in 1..NumApis : search[s].req[a].status = "none"

C1_Witness ==
  \E s \in Searches :
    /\ search[s].pc = "alerted"
    /\ search[s].criteria.title = <<" ">>
    /\ AllBlank(search[s].criteria)
    /\ RequestsIssued(s) = {}

\* C2: when K of the N requests reject and the others resolve with a data
\* array, searchDois returns exactly the records of the N-K data arrays:
\* nothing missing, nothing extra, each endpoint's records contiguous and in
\* that endpoint's order, whichever K rejected.
C2_ResultIsSuccessfulData ==
  \A s \in Searches :
    (Completed(s) /\ RequestsIssued(s) # {} /\ WellFormed(s)) =>
      /\ search[s].returned.status = "returned"
      /\ IsBlocksOf(search[s].returned.data, s, FulfilledApis(s))

C2_Witness ==
  \E s \in Searches :
    /\ Completed(s)
    /\ RejectedApis(s) # {}
    /\ \E a \in FulfilledApis(s) :
         /\ Len(search[s].req[a].value.data) = 2
         /\ search[s].returned.data = search[s].req[a].value.data

\* C3 as claimed: the blocks of the successful endpoints appear in the order
\* in which their requests completed.
C3_CompletionOrder ==
  \A s \in Searches :
    (Completed(s) /\ RequestsIssued(s) # {} /\ WellFormed(s)) =>
      search[s].returned.data =
        BlocksInOrder(s, SelectSeq(search[s].order, LAMBDA a : IsFulfilledIn(s, a)))

\* C3 as amended: the blocks of the successful endpoints appear in the order
\* of the endpoint list (the order in which the requests were issued),
\* whatever the order in which the requests completed.
C3_EndpointListOrder ==
  \A s \in Searches :
    (Completed(s) /\ RequestsIssued(s) # {} /\ WellFormed(s)) =>
      search[s].returned.data =
        BlocksInOrder(s, SelectSeq([a \in 1..NumApis |-> a],
                                   LAMBDA a : IsFulfilledIn(s, a)))

C3_Witness ==
  \E s \in Searches :
    /\ Completed(s)
    /\ search[s].order = <<2, 1>>
    /\ FulfilledApis(s) = {1, 2}
    /\ search[s].req[1].value.data # <<>>
    /\ search[s].req[2].value.data # <<>>
    /\ search[s].req[1].value.data # search[s].req[2].value.data
    /\ search[s].returned.data =
         search[s].req[1].value.data \o search[s].req[2].value.data

\* C4: when all N >= 1 requests fail, searchDois completes normally with
\* data = [] and raises no error.
C4_AllFailGivesEmptyResult ==
  \A s \in Searches :
    (Completed(s) /\ RequestsIssued(s) # {} /\ RejectedApis(s) = 1..NumApis) =>
      /\ search[s].returned = [status |-> "returned", data |-> <<>>]
      /\ search[s].pc = "rendered"
      /\ container = NoResultsView

C4_Witness ==
  \E s \in Searches :
    /\ Completed(s)
    /\ RequestsIssued(s) = 1..NumApis
    /\ RejectedApis(s) = 1..NumApis
    /\ search[s].returned.status = "returned"

\* C5: an endpoint whose response body has no data array is treated as
\* failed: it is left out of the merged result, the records of the other
\* endpoints are returned, and no error reaches the caller of searchDois.
C5_MalformedEndpointIsolated ==
  \A s \in Searches :
    (Completed(s) /\ RequestsIssued(s) # {} /\ ~WellFormed(s)) =>
      /\ search[s].returned.status = "returned"
      /\ search[s].pc = "rendered"
      /\ IsBlocksOf(search[s].returned.data, s,
                    {a \in FulfilledApis(s) : search[s].req[a].value.hasData})

\* number of occurrences of the token tok in the sequence q
RECURSIVE Count(_, _)
Count(q, tok) ==
  IF q = <<>> THEN 0
  ELSE (IF Head(q) = tok THEN 1 ELSE 0) + Count(Tail(q), tok)

\* part occurs in q as a contiguous run of tokens
Contains(q, part) ==
  \E p \in 1..(Len(q) - Len(part) + 1) : SubSeq(q, p, p + Len(part) - 1) = part

NonBlankFields(criteria) == {f \in Range(Fields) : ~IsBlank(criteria[f])}

\* C6: for criteria with at least one non-blank field and either operator,
\* the compiled query holds exactly one clause per non-blank field and none
\* for a blank (empty or whitespace-only) field, each clause value
\* percent-encoded, the clauses joined by the operator, the whole joined to
\* the namespace filter with AND inside parentheses.
C6_OneClausePerNonBlankField ==
  \A s \in Searches :
    (Submitted(s) /\ ~AllBlank(search[s].criteria)) =>
      /\ search[s].pc = "waiting"
      /\ \A a \in 1..NumApis :
           LET url == search[s].req[a].url
               criteria == search[s].criteria
               nonBlank == NonBlankFields(criteria)
           IN  /\ Len(url) >= 5
               /\ url[1] = apis[a]
               /\ url[3] = "(identifiers.identifier:*raid.org.au* AND ("
               /\ url[Len(url) - 1] = "))"
               /\ \A f \in Range(Fields) :
                    Count(url, ClausePrefix(f)) = IF f \in nonBlank THEN 1 ELSE 0
               /\ \A f \in nonBlank :
                    Contains(url, <<ClausePrefix(f)>> \o encodeURIComponent(criteria[f])
                                  \o <<ClauseSuffix(f)>>)
               /\ Count(url, search[s].operator) = Cardinality(nonBlank) - 1
               /\ \A op \in Operators \ {search[s].operator} : Count(url, op) = 0

Triggered(b) == batch[b].pc # "unused"

Fetches(b) == SelectSeq(batch[b].log, LAMBDA e : e.ev = "fetch")

FetchCount(b, i) == Count(batch[b].log, FetchIssued(i))

AllUrlsNonEmpty(b) == \A i \in DOMAIN batch[b].urls : batch[b].urls[i] # EmptyUrl

\* C7: a batch over M non-empty URLs performs exactly M fetches, one per URL
\* in sequence order, and no fetch of the batch is issued before the
\* download of the previous URL has ended, whatever succeeds or fails.
C7_OneFetchPerUrlInOrder ==
  \A b \in Batches :
    (Triggered(b) /\ AllUrlsNonEmpty(b)) =>
      LET log == batch[b].log
      IN  /\ \A k \in DOMAIN Fetches(b) : Fetches(b)[k].i = k
          /\ batch[b].pc = "done" => Len(Fetches(b)) = Len(batch[b].urls)
          /\ \A k \in DOMAIN log :
               log[k].ev = "fetch" =>
                 (k = 1 \/ log[k - 1] = DownloadEnded(log[k].i - 1))

C7_Witness ==
  \E b \in Batches :
    /\ batch[b].pc = "done"
    /\ Len(batch[b].urls) = 3
    /\ Len(batch[b].saved) = 2
    /\ Len(Fetches(b)) = 3

\* C8: between every two successive downloads of a batch the controller
\* waits the pacing interval: the fetch of URL i+1 is never issued less than
\* one pacing interval after the download of URL i ended, whether that
\* download succeeded or failed.
C8_PacingBetweenDownloads ==
  \A b \in Batches :
    \A k \in DOMAIN batch[b].gaps :
      k >= 2 => batch[b].gaps[k] >= PacingDelay

\* C9: a failed download neither aborts the batch nor is retried: no URL is
\* ever fetched more than once, a finished batch has fetched every URL once,
\* and every batch that was started finishes, whatever fails.
C9_BatchCompletesEveryUrlOnce ==
  /\ [](\A b \in Batches : \A i \in DOMAIN batch[b].urls : FetchCount(b, i) <= 1)
  /\ [](\A b \in Batches :
          batch[b].pc = "done" =>
            \A i \in DOMAIN batch[b].urls : FetchCount(b, i) = 1)
  /\ \A b \in Batches : Triggered(b) ~> (batch[b].pc = "done")

C9_Witness ==
  \E b \in Batches :
    /\ batch[b].pc = "done"
    /\ Len(batch[b].urls) >= 2
    /\ Len(batch[b].saved) < Len(batch[b].urls)
    /\ batch[b].gaps[2] = 0
    /\ \A i \in DOMAIN batch[b].urls : FetchCount(b, i) = 1

IsMarker(tok) == tok \in {MarkOpen, MarkClose}

\* the output with the markers removed
Unmark(out) == SelectSeq(out, LAMBDA tok : ~IsMarker(tok))

LowerCase(ch) == IF ch = "A" THEN "a" ELSE IF ch = "B" THEN "b" ELSE ch

\* the positions of text where query occurs literally, case-insensitively
Occurrences(text, query) ==
  {p \in 1..(Len(text) - Len(query) + 1) :
     \A k \in DOMAIN query : LowerCase(text[p + k - 1]) = LowerCase(query[k])}

\* the occurrences taken from left to right without overlap: an occurrence
\* is taken unless one taken to its left covers its first character
LeftmostOccurrences(text, query) ==
  LET occ == Occurrences(text, query)
  IN  CHOOSE S \in SUBSET occ :
        \A p \in occ :
          (p \in S) <=> ~(\E q \in S : q < p /\ p < q + Len(query))

\* the position in the unmarked text of the character after out[j]
TextPositionAfter(out, j) == Len(Unmark(SubSeq(out, 1, j))) + 1

\* C10: with a non-blank query, highlightText wraps in <mark>...</mark>
\* exactly the left-to-right, non-overlapping, case-insensitive literal
\* occurrences of the query (a regular-expression metacharacter matches only
\* itself), keeps the casing of the text, and leaves the rest unchanged:
\* removing the markers gives back the text.
C10_HighlightMarksLiteralOccurrences ==
  (hl # NoHighlight /\ ~IsBlank(hl.query)) =>
    LET out == hl.out
        n == Len(hl.query)
        opens == {j \in DOMAIN out : out[j] = MarkOpen}
    IN  /\ Unmark(out) = hl.text
        /\ {TextPositionAfter(out, j) : j \in opens}
             = LeftmostOccurrences(hl.text, hl.query)
        /\ \A j \in opens :
             /\ j + n + 1 <= Len(out)
             /\ out[j + n + 1] = MarkClose
             /\ \A k \in 1..n : ~IsMarker(out[j + k])
        /\ Count(out, MarkClose) = Cardinality(opens)

C10_Witness ==
  /\ hl.query = <<"a", ".">>
  /\ hl.text = <<"A", ".", "a", ".">>
  /\ hl.out = <<MarkOpen, "A", ".", MarkClose, MarkOpen, "a", ".", MarkClose>>

\* C11: for every text and every blank query (empty or whitespace only),
\* highlightText returns the text unchanged.
C11_BlankQueryIsIdentity ==
  IsBlank(hl.query) => hl.out = hl.text

\* a request of search s has been issued and has not settled
Pending(s) == {a \in 1..NumApis : search[s].req[a].status \in {"fetching", "parsing"}}

\* C14: searchDois produces its result, a return or a raise, only once every
\* endpoint request has settled: it never ends while a request is pending,
\* and a failed request does not make it end early.
C14_JoinWaitsForEveryRequest ==
  \A s \in Searches :
    (Completed(s) \/ search[s].returned.status # "none") => Pending(s) = {}

\* a search that completed although its first request to settle had failed
\* and the others settled after it
C14_Witness ==
  \E s \in Searches :
    /\ Completed(s)
    /\ RequestsIssued(s) = 1..NumApis
    /\ Len(search[s].order) = NumApis
    /\ search[s].req[search[s].order[1]].status = "rejected"
    /\ search[s].req[search[s].order[NumApis]].status = "fulfilled"

\* C15: a search whose criteria pass validation calls fetch exactly once for
\* each registered endpoint, also for an endpoint whose request failed; a
\* search that is rejected at validation calls it for none.
C15_OneRequestPerEndpoint ==
  \A s \in Searches : \A a \in 1..NumApis :
    search[s].req[a].sent =
      IF Submitted(s) /\ hasAtLeastOneCriterion(search[s].criteria) THEN 1 ELSE 0

\* a completed search every endpoint of which failed, each asked once
C15_Witness ==
  \E s \in Searches :
    /\ Completed(s)
    /\ RejectedApis(s) = 1..NumApis
    /\ \A a \in 1..NumApis : search[s].req[a].sent = 1

\* the object URLs of batch b whose source URL lies before index j
ObjectUrlsBefore(b, j) == {k \in DOMAIN batch[b].objs : batch[b].objs[k].i < j}

\* C18: every object URL a batch creates is revoked at most once, only after
\* the save of its file was triggered, and it has been revoked when the fetch
\* of the next URL of the batch is issued and when the batch completes: a
\* completed batch leaves no object URL unrevoked.
C18_ObjectUrlsReleasedOnce ==
  \A b \in Batches :
    /\ Len(batch[b].objs) = Len(batch[b].saved)
    /\ \A k \in DOMAIN batch[b].objs : batch[b].objs[k].revoked \in {0, 1}
    /\ \A j \in DOMAIN batch[b].urls :
         FetchCount(b, j) > 0 =>
           \A k \in ObjectUrlsBefore(b, j) : batch[b].objs[k].revoked = 1
    /\ batch[b].pc = "done" =>
         \A k \in DOMAIN batch[b].objs : batch[b].objs[k].revoked = 1

\* a batch that completed after creating two object URLs
C18_Witness ==
  \E b \in Batches :
    /\ batch[b].pc = "done"
    /\ Len(batch[b].objs) >= 2
    /\ \A k \in DOMAIN batch[b].objs : batch[b].objs[k].revoked = 1

\* batch b has issued a fetch whose download has not ended
InFlight(b) == batch[b].pc \in {"fetching", "reading"}

\* C13: across the whole session, repeated download triggers included, no
\* two artifact downloads are in flight at the same time.
C13_NoTwoDownloadsInFlight ==
  Cardinality({b \in Batches : InFlight(b)}) <= 1

\* the identifiers of the records passed to renderResults so far
RenderedDois ==
  UNION {{search[s].returned.data[k].doi : k \in DOMAIN search[s].returned.data} :
           s \in {r \in Searches : search[r].pc = "rendered"}}

\* C16: after any sequence of render passes filesToDownload holds exactly
\* one artifact URL for each distinct identifier of every record rendered so
\* far in the session: no duplicate, and nothing is lost by a later search
\* or by a render of an empty result.
C16_ArtifactSetIsRenderedHistory ==
  /\ Range(filesToDownload) = {ArtifactUrl(doi) : doi \in RenderedDois}
  /\ Cardinality(Range(filesToDownload)) = Len(filesToDownload)

\* two searches rendered two records, one of them twice, and the render
\* that ran last was of an empty result
C16_Witness ==
  /\ Cardinality({s \in Searches : search[s].pc = "rendered"}) >= 2
  /\ \E s \in Searches : Len(search[s].returned.data) > Cardinality(RenderedDois)
  /\ Len(filesToDownload) = 2
  /\ container = NoResultsView

\* what search s wrote to the container when it completed
Outcome(s) ==
  IF search[s].pc = "failed" THEN ErrorView
  ELSE renderResults(search[s].returned.data, <<>>).container

\* C20: once every submitted search has completed, searches that were
\* submitted while an earlier one was waiting included, the container shows
\* the outcome of the search submitted last, whatever the order in which
\* their responses settled.
C20_LastSubmittedSearchWins ==
  (nSubmitted >= 2 /\ \A s \in 1..nSubmitted : Completed(s))
    => container = Outcome(nSubmitted)

\* the URLs batch b has fetched so far, in the order of the fetches
FetchedUrls(b) == [k \in DOMAIN Fetches(b) |-> batch[b].urls[Fetches(b)[k].i]]

\* C17: a batch reads filesToDownload once, when it is triggered: it
\* fetches the URLs the set held at that moment, each once and in insertion
\* order, a URL that a render adds while the batch runs is not fetched by
\* it, and no step of a batch changes the set.
C17_BatchDownloadsSnapshot ==
  /\ [](\A b \in Batches :
          /\ \A k \in DOMAIN Fetches(b) : Fetches(b)[k].i \in DOMAIN batch[b].urls
          /\ IsPrefix(FetchedUrls(b), batch[b].urls)
          /\ batch[b].pc = "done" => FetchedUrls(b) = batch[b].urls)
  /\ [][\A b \in Batches :
          /\ (~Triggered(b) /\ Triggered(b)') => batch'[b].urls = filesToDownload
          /\ Triggered(b) => batch'[b].urls = batch[b].urls
          /\ batch'[b] # batch[b] => filesToDownload' = filesToDownload]_vars

\* a batch has saved every URL of its snapshot and waits out its last pacing
\* delay, while a render has meanwhile added a URL to the set
C17_Witness ==
  \E b \in Batches :
    /\ batch[b].pc = "pacing"
    /\ batch[b].i = Len(batch[b].urls)
    /\ Len(batch[b].saved) = Len(batch[b].urls)
    /\ Len(filesToDownload) > Len(batch[b].urls)

\* the name identifiers of all contributors, in scan order
RECURSIVE AllNameIdentifiers(_)
AllNameIdentifiers(contributors) ==
  IF contributors = <<>> THEN <<>>
  ELSE Head(contributors).nameIdentifiers \o AllNameIdentifiers(Tail(contributors))

\* the part of an identifier after its last "/"
RECURSIVE TrailingSegment(_)
TrailingSegment(id) ==
  IF id = <<>> \/ id[Len(id)] = "/" THEN <<>>
  ELSE Append(TrailingSegment(SubSeq(id, 1, Len(id) - 1)), id[Len(id)])

\* the link of one organisation: target https://ror.org/<trailing segment>,
\* text the identifier highlighted with the organisation criterion
OrganisationLink(id, criterion) ==
  <<"<a href=\"", "https://ror.org/">> \o TrailingSegment(id)
    \o <<"\" target=\"_blank\">">> \o highlightText(id, criterion) \o <<"</a>">>

RorIdentifiers(attributes) ==
  SelectSeq(AllNameIdentifiers(attributes.contributors),
            LAMBDA id : Contains(id, <<"ror.org">>))

\* C12: the organisations line renders exactly the name identifiers, over
\* all contributors, whose value contains ror.org, in scan order and joined
\* by " & "; each link points to https://ror.org/ followed by the trailing
\* path segment and shows the whole identifier, highlighted with the
\* organisation criterion; with no such identifier the line is the
\* placeholder "No organisations".
C12_OrganisationProjection ==
  view.called =>
    LET ids == RorIdentifiers(view.attributes)
        links == [k \in DOMAIN ids |->
                    OrganisationLink(ids[k], view.criteria.organisation)]
    IN  /\ view.out.organisations =
             IF ids = <<>> THEN NoOrganisations ELSE Join(links, <<Amp>>)
        /\ \A k \in DOMAIN ids :
             Unmark(highlightText(ids[k], view.criteria.organisation)) = ids[k]

\* a record with two contributors, three identifiers that qualify and one
\* that does not, rendered with an organisation criterion that matches
C12_Witness ==
  /\ view.called
  /\ Len(view.attributes.contributors) = 2
  /\ Len(RorIdentifiers(view.attributes)) = 3
  /\ Orcid \in Range(AllNameIdentifiers(view.attributes.contributors))
  /\ view.criteria.organisation = <<"ror.org">>
  /\ MarkOpen \in Range(view.out.organisations)

\* C19: the placeholders are fixed: a record with no description shows
\* exactly "No Description" and a record with no titles shows exactly
\* "No Title", whatever the search criteria are.
C19_PlaceholdersAreFixed ==
  view.called =>
    /\ (view.attributes.descriptions = <<>> \/ view.attributes.descriptions[1] = <<>>)
         => view.out.description = NoDescription
    /\ SelectSeq(view.attributes.titles, Truthy) = <<>>
         => view.out.titles = NoTitle

====
